---- MODULE Spec2Model ----
(***************************************************************************)
(* Nested cross-validation notebook (notebooks/cross_validation_nested).   *)
(*                                                                         *)
(* The notebook is a linear script; each statement of its code cells is    *)
(* one action, ordered by pc.  The library calls it makes (KFold,          *)
(* GridSearchCV, cross_val_score, SVC) are operators.  Sample indices are  *)
(* 1..NSamples; an accuracy is an integer number of Unit-ths, so that the  *)
(* means the notebook takes are exact.  Parameter values are scaled to     *)
(* integers: C in tenths, gamma in hundredths (0 stands for "scale").      *)
(*                                                                         *)
(* The first search cell (GridSearchCV with the default cv) is not part    *)
(* of the state machine: nothing it assigns is read by a later cell.       *)
(***************************************************************************)
EXTENDS Integers, Sequences, FiniteSets, TLC

\* ------------------------------------------------------------- bounds
\* Number of samples of the dataset (the real one has 569).
NSamples == 6
\* Number of classifier behaviours the dataset/SVC pair is drawn from.
MaxSvc == 3
\* Number of bit generators the shuffle is drawn from.
MaxBitGen == 2

\* ---------------------------------------------------- program constants
N_TRIALS == 20
n_splits == 4

VARIABLES
    pc,                     \* the statement the script is at
    data,                   \* sample indices of the feature matrix
    target,                 \* label of each sample
    param_grid,             \* the hyperparameter grid
    model_to_tune,          \* the base SVC
    inner_cv, outer_cv,     \* the KFold objects
    model,                  \* the GridSearchCV object
    test_score,             \* the array cross_val_score returned last
    cv_log,                 \* what that cross_val_score did, per outer fold
    test_score_not_nested,
    test_score_nested,
    i,                      \* loop variable of the trial loop
    n_trials,               \* the trial count the loop runs to
    all_scores,             \* the final table
    svc,                    \* which classifier behaviour (input)
    bitgen                  \* which bit generator (input)

vars == <<pc, data, target, param_grid, model_to_tune, inner_cv, outer_cv,
          model, test_score, cv_log, test_score_not_nested,
          test_score_nested, i, n_trials, all_scores, svc, bitgen>>

\* ------------------------------------------------------------ helpers
RECURSIVE SumSeq(_)
SumSeq(s) == IF s = <<>> THEN 0 ELSE Head(s) + SumSeq(Tail(s))

RECURSIVE SortedSeq(_)
SortedSeq(S) ==
    IF S = {} THEN <<>>
    ELSE LET m == CHOOSE x \in S : \A y \in S : x <= y
         IN  <<m>> \o SortedSeq(S \ {m})

RECURSIVE Gcd(_, _)
Gcd(a, b) == IF b = 0 THEN a ELSE Gcd(b, a % b)

RECURSIVE LcmUpTo(_)
LcmUpTo(n) == IF n <= 1 THEN 1
              ELSE LET l == LcmUpTo(n - 1) IN (l * n) \div Gcd(l, n)

\* An accuracy of 1.0.  Every fold score is a multiple of n_splits, so the
\* mean over n_splits folds is exact.
Unit == n_splits * LcmUpTo(NSamples)

\* numpy mean of an array of scores
mean(s) == SumSeq(s) \div Len(s)

RECURSIVE SetCode(_)
SetCode(S) ==
    IF S = {} THEN 0
    ELSE LET m == CHOOSE x \in S : \A y \in S : x <= y
         IN  (2 * SetCode(S \ {m}) + m) % 1009

\* ------------------------------------------------- numpy RandomState
\* check_random_state(seed): a fresh generator seeded with the integer.
RandomState(seed) == (seed * 97 + bitgen * 31 + 11) % 65537

\* One step of the bit generator.
rk_random(st) == (75 * st + 74) % 65537

Swap(x, a, b) == [x EXCEPT ![a] = x[b], ![b] = x[a]]

\* RandomState.shuffle: Fisher-Yates from the last position down.
RECURSIVE shuffle(_, _, _)
shuffle(x, k, st) ==
    IF k < 2 THEN x
    ELSE LET st2 == rk_random(st)
             j == ((st2 \div 16) % k) + 1
         IN  shuffle(Swap(x, k, j), k - 1, st2)

\* ---------------------------------------------------------------- KFold
KFold(k, shuf, seed) ==
    [n_splits |-> k, shuffle |-> shuf, random_state |-> seed]

\* fold_size without the remainder: every fold gets n // n_splits samples
fold_size_floor(cv, n, f) == n \div cv.n_splits

fold_size(cv, n, f) ==
    (n \div cv.n_splits) + (IF f <= (n % cv.n_splits) THEN 1 ELSE 0)

RECURSIVE fold_start(_, _, _)
fold_start(cv, n, f) ==
    IF f <= 1 THEN 0 ELSE fold_start(cv, n, f - 1) + fold_size(cv, n, f - 1)

\* KFold.split on n samples: the folds, as sets of positions 1..n.  More
\* splits than samples raises ValueError: no fold is produced.
KFold_split(cv, n) ==
    IF cv.n_splits > n THEN <<>>
    ELSE LET arange == [p \in 1..n |-> p]
             indices == IF cv.shuffle
                        THEN shuffle(arange, n, RandomState(cv.random_state))
                        ELSE arange
         IN  [f \in 1..cv.n_splits |->
                LET start == fold_start(cv, n, f)
                    tst == {indices[p] :
                               p \in (start + 1)..(start + fold_size(cv, n, f))}
                IN  [train |-> (1..n) \ tst, test |-> tst]]

\* ------------------------------------------------------------------ SVC
SVC == [C |-> 10, gamma |-> 0, fitted |-> FALSE, X_ |-> {}]

clone_svc(est) == [est EXCEPT !.fitted = FALSE, !.X_ = {}]

set_params(est, p) == [est EXCEPT !.C = p.C, !.gamma = p.gamma]

SVC_fit(est, X) == [est EXCEPT !.fitted = TRUE, !.X_ = X]

\* The label the fitted classifier predicts for sample s: a function of its
\* parameters, of the samples it was fitted on and of the sample.
SVC_predict(est, s) ==
    LET key == 131 * svc + 31 * est.C + 17 * est.gamma
                   + 7 * SetCode(est.X_) + 3 * s
    IN  ((key * key) \div 64) % 2

\* accuracy of a fitted classifier on the samples X
SVC_score(est, X) ==
    (Cardinality({s \in X : SVC_predict(est, s) = target[s]}) * Unit)
        \div Cardinality(X)

\* ------------------------------------------------------- GridSearchCV
NoParams == [C |-> 0, gamma |-> 0]

\* The constructor: an unfitted search.  X_ and splits_ record what fit
\* was given and the folds it made of it, in sample indices.
GridSearchCV(est, grid, cv) ==
    [estimator |-> est, param_grid |-> grid, cv |-> cv, fitted |-> FALSE,
     X_ |-> {}, splits_ |-> <<>>, out_ |-> <<>>, mean_test_score |-> <<>>,
     rank_test_score |-> <<>>, best_index_ |-> 0, best_params_ |-> NoParams,
     best_score_ |-> 0, best_estimator_ |-> clone_svc(est)]

\* sklearn.base.clone: same parameters (nested estimator cloned), nothing
\* fitted.
clone(gs) == GridSearchCV(clone_svc(gs.estimator), gs.param_grid, gs.cv)

\* ParameterGrid: keys in sorted order (C, gamma), the last varying fastest.
ParameterGrid(grid) ==
    [c \in 1..(Len(grid.C) * Len(grid.gamma)) |->
        [C |-> grid.C[((c - 1) \div Len(grid.gamma)) + 1],
         gamma |-> grid.gamma[((c - 1) % Len(grid.gamma)) + 1]]]

\* _fit_and_score of one candidate on one fold
fit_and_score(est, params, fold) ==
    SVC_score(SVC_fit(set_params(clone_svc(est), params), fold.train),
              fold.test)

\* evaluate_candidates: product(candidates, folds), candidate-major
evaluate_candidates(est, cands, folds) ==
    [t \in 1..(Len(cands) * Len(folds)) |->
        LET c == ((t - 1) \div Len(folds)) + 1
            f == ((t - 1) % Len(folds)) + 1
        IN  [cand |-> c, split |-> f,
             test_score |-> fit_and_score(est, cands[c], folds[f])]]

\* _format_results: the scores reshaped (n_candidates, n_splits), averaged
mean_of(out, ncand, nfolds) ==
    [c \in 1..ncand |->
        mean([f \in 1..nfolds |-> out[(c - 1) * nfolds + f].test_score])]

\* rankdata(-mean_test_score, method="min")
rank_of(means) ==
    [c \in DOMAIN means |->
        1 + Cardinality({d \in DOMAIN means : means[d] > means[c]})]

\* argmin taking the last index of the smallest value
argmin_last(r) ==
    CHOOSE c \in DOMAIN r :
        /\ \A d \in DOMAIN r : r[c] <= r[d]
        /\ \A d \in DOMAIN r : d > c => r[d] > r[c]

\* numpy argmin: the first index of the smallest value
argmin(r) ==
    CHOOSE c \in DOMAIN r :
        /\ \A d \in DOMAIN r : r[c] <= r[d]
        /\ \A d \in DOMAIN r : d < c => r[d] > r[c]

\* GridSearchCV.fit on the samples X (refit=True).  The base estimator is
\* cloned for every fit, never fitted itself.
GridSearchCV_fit(gs, X) ==
    LET Xs == SortedSeq(X)
        pos == KFold_split(gs.cv, Len(Xs))
        folds == [f \in DOMAIN pos |->
                    [train |-> {Xs[p] : p \in pos[f].train},
                     test |-> {Xs[p] : p \in pos[f].test}]]
        cands == ParameterGrid(gs.param_grid)
        out == evaluate_candidates(gs.estimator, cands, folds)
        means == mean_of(out, Len(cands), Len(folds))
        ranks == rank_of(means)
        best == argmin(ranks)
    IN  IF pos = <<>>
        THEN [gs EXCEPT !.fitted = FALSE, !.X_ = X]
        ELSE [gs EXCEPT !.fitted = TRUE, !.X_ = X, !.splits_ = folds,
                        !.out_ = out, !.mean_test_score = means,
                        !.rank_test_score = ranks, !.best_index_ = best,
                        !.best_params_ = cands[best],
                        !.best_score_ = means[best],
                        !.best_estimator_ =
                            SVC_fit(set_params(clone_svc(gs.estimator),
                                               cands[best]), X)]

\* GridSearchCV.score: the refitted best estimator's accuracy
GridSearchCV_score(gs, X) == SVC_score(gs.best_estimator_, X)

\* ---------------------------------------------------- cross_val_score
\* cross_validate: per fold of cv, a clone of the estimator is fitted on the
\* fold's training samples and scored on its test samples.  A failed fit
\* scores error_score (nan, here -1).
cross_validate(est, X, cv) ==
    LET Xs == SortedSeq(X)
        pos == KFold_split(cv, Len(Xs))
    IN  [f \in DOMAIN pos |->
            LET train == {Xs[p] : p \in pos[f].train}
                test == {Xs[p] : p \in pos[f].test}
                e == GridSearchCV_fit(clone(est), train)
            IN  [train |-> train, test |-> test, estimator |-> e,
                 test_score |-> IF e.fitted
                                THEN GridSearchCV_score(e, test)
                                ELSE -1]]

\* cross_val_score: the test scores of cross_validate, in fold order
cross_val_score(cvres) == [f \in DOMAIN cvres |-> cvres[f].test_score]

\* --------------------------------------------------------- the notebook
NoCV == KFold(0, FALSE, 0)

\* the grid with one gamma value left out
ParamGridShort == [C |-> <<1, 10, 100>>, gamma |-> <<1>>]

ParamGridLiteral == [C |-> <<1, 10, 100>>, gamma |-> <<1, 10>>]

NoTable == [Not_nested_CV |-> <<>>, Nested_CV |-> <<>>]

Init ==
    /\ pc = "declare_cv"
    /\ data = 1..NSamples
    /\ target = [s \in 1..NSamples |-> s % 2]
    /\ param_grid = ParamGridLiteral
    /\ model_to_tune = SVC
    /\ inner_cv = NoCV
    /\ outer_cv = NoCV
    /\ model = GridSearchCV(SVC, ParamGridLiteral, NoCV)
    /\ test_score = <<>>
    /\ cv_log = <<>>
    /\ test_score_not_nested = <<>>
    /\ test_score_nested = <<>>
    /\ i = -1
    /\ n_trials \in 1..N_TRIALS
    /\ all_scores = NoTable
    /\ svc \in 1..MaxSvc
    /\ bitgen \in 1..MaxBitGen

\* inner_cv = KFold(...); outer_cv = KFold(...) of the nested cell
CellInnerCV == KFold(n_splits, TRUE, 0)
CellOuterCV == KFold(n_splits, TRUE, 0)

DeclareCV ==
    /\ pc = "declare_cv"
    /\ inner_cv' = CellInnerCV
    /\ outer_cv' = CellOuterCV
    /\ pc' = "build_model"
    /\ UNCHANGED <<data, target, param_grid, model_to_tune, model,
                   test_score, cv_log, test_score_not_nested,
                   test_score_nested, i, n_trials, all_scores, svc, bitgen>>

\* model = GridSearchCV(estimator=model_to_tune, param_grid=param_grid,
\*                      cv=inner_cv)
NewSearch == GridSearchCV(model_to_tune, param_grid, inner_cv)

BuildModel ==
    /\ pc = "build_model"
    /\ model' = NewSearch
    /\ pc' = "nested_score"
    /\ UNCHANGED <<data, target, param_grid, model_to_tune, inner_cv,
                   outer_cv, test_score, cv_log, test_score_not_nested,
                   test_score_nested, i, n_trials, all_scores, svc, bitgen>>

\* the search fitted once on the whole dataset and scored, as it is, on each
\* outer test fold
NestedCV_prefit ==
    LET fitted == GridSearchCV_fit(model, data)
        Xs == SortedSeq(data)
        pos == KFold_split(outer_cv, Len(Xs))
    IN  [f \in DOMAIN pos |->
            LET test == {Xs[p] : p \in pos[f].test}
            IN  [train |-> {Xs[p] : p \in pos[f].train}, test |-> test,
                 estimator |-> fitted,
                 test_score |-> GridSearchCV_score(fitted, test)]]

\* the search fitted once on the whole dataset, and only the classifier with
\* the parameters it selected cross-validated on the outer folds
NestedCV_best_only ==
    LET fitted == GridSearchCV_fit(model, data)
        Xs == SortedSeq(data)
        pos == KFold_split(outer_cv, Len(Xs))
    IN  [f \in DOMAIN pos |->
            LET train == {Xs[p] : p \in pos[f].train}
                test == {Xs[p] : p \in pos[f].test}
                e == [fitted EXCEPT !.best_estimator_ =
                         SVC_fit(set_params(clone_svc(fitted.estimator),
                                            fitted.best_params_), train)]
            IN  [train |-> train, test |-> test, estimator |-> e,
                 test_score |-> GridSearchCV_score(e, test)]]

\* cross_val_score(model, data, target, cv=outer_cv), with what it did
NestedCV == cross_validate(model, data, outer_cv)

NestedScore ==
    /\ pc = "nested_score"
    /\ cv_log' = NestedCV
    /\ test_score' = cross_val_score(NestedCV)
    /\ pc' = "init_lists"
    /\ UNCHANGED <<data, target, param_grid, model_to_tune, inner_cv,
                   outer_cv, model, test_score_not_nested,
                   test_score_nested, i, n_trials, all_scores, svc, bitgen>>

InitLists ==
    /\ pc = "init_lists"
    /\ test_score_not_nested' = <<>>
    /\ test_score_nested' = <<>>
    /\ pc' = "for"
    /\ UNCHANGED <<data, target, param_grid, model_to_tune, inner_cv,
                   outer_cv, model, test_score, cv_log, i, n_trials,
                   all_scores, svc, bitgen>>

\* for i in range(N_TRIALS): the next trial
ForNext ==
    /\ pc = "for"
    /\ i + 1 < n_trials
    /\ i' = i + 1
    /\ pc' = "trial_cv"
    /\ UNCHANGED <<data, target, param_grid, model_to_tune, inner_cv,
                   outer_cv, model, test_score, cv_log,
                   test_score_not_nested, test_score_nested, n_trials,
                   all_scores, svc, bitgen>>

\* the loop is exhausted; i keeps its last value
ForExit ==
    /\ pc = "for"
    /\ ~(i + 1 < n_trials)
    /\ pc' = "all_scores"
    /\ UNCHANGED <<data, target, param_grid, model_to_tune, inner_cv,
                   outer_cv, model, test_score, cv_log,
                   test_score_not_nested, test_score_nested, i, n_trials,
                   all_scores, svc, bitgen>>

\* the outer splitter seeded one off
TrialOuterCV_shifted == KFold(n_splits, TRUE, i + 1)

TrialInnerCV == KFold(n_splits, TRUE, i)
TrialOuterCV == KFold(n_splits, TRUE, i)

TrialCV ==
    /\ pc = "trial_cv"
    /\ inner_cv' = TrialInnerCV
    /\ outer_cv' = TrialOuterCV
    /\ pc' = "trial_model"
    /\ UNCHANGED <<data, target, param_grid, model_to_tune, model,
                   test_score, cv_log, test_score_not_nested,
                   test_score_nested, i, n_trials, all_scores, svc, bitgen>>

TrialModel ==
    /\ pc = "trial_model"
    /\ model' = NewSearch
    /\ pc' = "trial_fit"
    /\ UNCHANGED <<data, target, param_grid, model_to_tune, inner_cv,
                   outer_cv, test_score, cv_log, test_score_not_nested,
                   test_score_nested, i, n_trials, all_scores, svc, bitgen>>

\* model.fit(data, target): the search object is fitted in place; the base
\* estimator it refers to is the object model_to_tune names.
TrialFit ==
    /\ pc = "trial_fit"
    /\ model' = GridSearchCV_fit(model, data)
    /\ model_to_tune' = model'.estimator
    /\ pc' = "append_not_nested"
    /\ UNCHANGED <<data, target, param_grid, inner_cv, outer_cv,
                   test_score, cv_log, test_score_not_nested,
                   test_score_nested, i, n_trials, all_scores, svc, bitgen>>

\* the list re-assigned instead of appended to
NotNestedReassigned == <<model.best_score_>>

\* test_score_not_nested.append(model.best_score_)
NotNestedAppended == Append(test_score_not_nested, model.best_score_)

AppendNotNested ==
    /\ pc = "append_not_nested"
    /\ test_score_not_nested' = NotNestedAppended
    /\ pc' = "trial_nested"
    /\ UNCHANGED <<data, target, param_grid, model_to_tune, inner_cv,
                   outer_cv, model, test_score, cv_log, test_score_nested,
                   i, n_trials, all_scores, svc, bitgen>>

TrialNested ==
    /\ pc = "trial_nested"
    /\ cv_log' = NestedCV
    /\ test_score' = cross_val_score(NestedCV)
    /\ pc' = "append_nested"
    /\ UNCHANGED <<data, target, param_grid, model_to_tune, inner_cv,
                   outer_cv, model, test_score_not_nested,
                   test_score_nested, i, n_trials, all_scores, svc, bitgen>>

\* the list extended with the fold scores instead of their mean
NestedExtended == test_score_nested \o test_score

\* test_score_nested.append(test_score.mean())
NestedAppended == Append(test_score_nested, mean(test_score))

AppendNested ==
    /\ pc = "append_nested"
    /\ test_score_nested' = NestedAppended
    /\ pc' = "for"
    /\ UNCHANGED <<data, target, param_grid, model_to_tune, inner_cv,
                   outer_cv, model, test_score, cv_log,
                   test_score_not_nested, i, n_trials, all_scores, svc,
                   bitgen>>

\* all_scores = pd.DataFrame({...}): two columns of the same length
AllScores ==
    /\ pc = "all_scores"
    /\ all_scores' = [Not_nested_CV |-> test_score_not_nested,
                      Nested_CV |-> test_score_nested]
    /\ pc' = "done"
    /\ UNCHANGED <<data, target, param_grid, model_to_tune, inner_cv,
                   outer_cv, model, test_score, cv_log,
                   test_score_not_nested, test_score_nested, i, n_trials,
                   svc, bitgen>>

Next ==
    \/ DeclareCV
    \/ BuildModel
    \/ NestedScore
    \/ InitLists
    \/ ForNext
    \/ ForExit
    \/ TrialCV
    \/ TrialModel
    \/ TrialFit
    \/ AppendNotNested
    \/ TrialNested
    \/ AppendNested
    \/ AllScores

Spec == Init /\ [][Next]_vars

\* --------------------------------------------------------------- types
TypeOK ==
    /\ pc \in {"declare_cv", "build_model", "nested_score", "init_lists",
               "for", "trial_cv", "trial_model", "trial_fit",
               "append_not_nested", "trial_nested", "append_nested",
               "all_scores", "done"}
    /\ i \in -1..(N_TRIALS - 1)
    /\ \A j \in DOMAIN test_score : test_score[j] \in 0..Unit
    /\ \A j \in DOMAIN test_score_nested : test_score_nested[j] \in 0..Unit
    /\ \A j \in DOMAIN test_score_not_nested :
           test_score_not_nested[j] \in 0..Unit

\* ---------------------------------------------------------- properties
InTrial == pc \in {"trial_model", "trial_fit", "append_not_nested",
                   "trial_nested", "append_nested"}

\* a nested evaluation has just returned (the nested cell, or a trial)
NestedReturned == pc \in {"init_lists", "append_nested"}

\* every sample index a fitted search has touched: what fit was given, its
\* inner training and held-out folds, and what the scored model was fitted on
InnerSeen(e) ==
    e.X_ \cup e.best_estimator_.X_
         \cup UNION {e.splits_[g].train \cup e.splits_[g].test :
                        g \in DOMAIN e.splits_}

\* C1: in the nested procedure, for every outer fold, the outer test indices
\* are disjoint from every sample index the inner search used: what it was
\* fitted on, its inner training folds, its inner held-out folds and the
\* training data of the model that is scored.
C1_OuterTestUnseen ==
    NestedReturned =>
        \A f \in DOMAIN cv_log :
            /\ cv_log[f].test # {}
            /\ cv_log[f].test \cap InnerSeen(cv_log[f].estimator) = {}

\* C1 witness: a trial's nested scores are in, computed with the search
\* object that was fitted on the full dataset just before.
C1_Witness ==
    /\ pc = "append_nested"
    /\ i >= 1
    /\ model.fitted
    /\ model.X_ = data
    /\ Len(cv_log) = n_splits
    /\ \A f \in DOMAIN cv_log :
           /\ cv_log[f].estimator.fitted
           /\ InnerSeen(cv_log[f].estimator) # {}

\* the mean held-out score of candidate c over the folds of a fitted search,
\* computed from the folds themselves
HeldOutMean(e, c) ==
    LET cands == ParameterGrid(e.param_grid)
    IN  mean([g \in DOMAIN e.splits_ |->
                SVC_score(SVC_fit(set_params(clone_svc(e.estimator),
                                             cands[c]),
                                  e.splits_[g].train),
                          e.splits_[g].test)])

BestIsFirstMax(e) ==
    LET cands == ParameterGrid(e.param_grid)
        m == [c \in DOMAIN cands |-> HeldOutMean(e, c)]
        b == e.best_index_
    IN  /\ b \in DOMAIN cands
        /\ e.best_params_ = cands[b]
        /\ e.best_score_ = m[b]
        /\ \A c \in DOMAIN cands : m[c] <= m[b]
        /\ \A c \in DOMAIN cands : c < b => m[c] < m[b]

\* every search that is fitted at this point
FittedSearches ==
    (IF model.fitted THEN {model} ELSE {})
        \cup {cv_log[f].estimator : f \in DOMAIN cv_log}

\* C2: a fitted search returns as best_params_ the combination with the
\* highest mean held-out score over its folds, as best_score_ exactly that
\* mean, and among the combinations sharing the highest mean the first in the
\* grid's iteration order.
C2_BestParams ==
    pc \in {"init_lists", "append_not_nested", "append_nested"} =>
        \A e \in FittedSearches : e.fitted /\ BestIsFirstMax(e)

\* C2 witness: a fitted search in which several combinations share the
\* highest mean and the first of them, not the first of the grid, is returned.
C2_Witness ==
    /\ pc = "append_not_nested"
    /\ model.fitted
    /\ model.best_index_ > 1
    /\ \E c \in DOMAIN model.mean_test_score :
           /\ c > model.best_index_
           /\ model.mean_test_score[c] = model.best_score_

\* C3: the nested evaluation returns one score per outer fold, in outer-fold
\* order; the score of fold f comes from an inner search run on exactly the
\* training subset of fold f (its inner folds split that subset and nothing
\* else), the selected model fitted on that subset only, scored on the test
\* subset of fold f.
C3_NestedPerFold ==
    NestedReturned =>
        LET outer == KFold_split(outer_cv, Cardinality(data))
            Xs == SortedSeq(data)
        IN  /\ Len(test_score) = outer_cv.n_splits
            /\ Len(cv_log) = outer_cv.n_splits
            /\ \A f \in DOMAIN cv_log :
                 LET r == cv_log[f]
                     e == r.estimator
                 IN  /\ r.test = {Xs[p] : p \in outer[f].test}
                     /\ r.train = data \ r.test
                     /\ e.fitted
                     /\ e.X_ = r.train
                     /\ e.cv = inner_cv
                     /\ UNION {e.splits_[g].test : g \in DOMAIN e.splits_}
                            = r.train
                     /\ \A g \in DOMAIN e.splits_ :
                            e.splits_[g].train = r.train \ e.splits_[g].test
                     /\ e.best_estimator_.X_ = r.train
                     /\ e.best_estimator_.C = e.best_params_.C
                     /\ e.best_estimator_.gamma = e.best_params_.gamma
                     /\ test_score[f] = SVC_score(e.best_estimator_, r.test)

\* C3 witness: a trial's nested scores are in and two outer folds selected
\* different hyperparameters.
C3_Witness ==
    /\ pc = "append_nested"
    /\ Len(test_score) = n_splits
    /\ \E f, g \in DOMAIN cv_log :
           cv_log[f].estimator.best_params_ # cv_log[g].estimator.best_params_

\* C4: the two result sequences stay parallel: after the i-th iteration both
\* have length i, their last elements being the non-nested and the nested
\* score of that trial; when the loop has ended both have length n_trials,
\* and so have the two columns of the table built from them.
C4_ParallelLengths ==
    /\ pc \in {"trial_cv", "trial_model", "trial_fit", "append_not_nested"}
         => /\ Len(test_score_not_nested) = i
            /\ Len(test_score_nested) = i
    /\ pc \in {"trial_nested", "append_nested"}
         => /\ Len(test_score_not_nested) = i + 1
            /\ Len(test_score_nested) = i
    /\ pc = "for"
         => /\ Len(test_score_not_nested) = i + 1
            /\ Len(test_score_nested) = i + 1
            /\ i >= 0 => /\ model.cv.random_state = i
                         /\ test_score_not_nested[i + 1] = model.best_score_
                         /\ test_score_nested[i + 1] = mean(test_score)
    /\ pc \in {"all_scores", "done"}
         => /\ Len(test_score_not_nested) = n_trials
            /\ Len(test_score_nested) = n_trials
    /\ pc = "done"
         => /\ Len(all_scores.Not_nested_CV) = n_trials
            /\ Len(all_scores.Nested_CV) = n_trials

\* C4 witness: the loop has ended after more than one trial.
C4_Witness ==
    /\ pc = "done"
    /\ n_trials = N_TRIALS
    /\ Len(all_scores.Nested_CV) = N_TRIALS

EachPairOnce(e, ncand, nfolds) ==
    /\ Len(e.out_) = ncand * nfolds
    /\ \A c \in 1..ncand : \A g \in 1..nfolds :
           Cardinality({t \in DOMAIN e.out_ :
                           e.out_[t].cand = c /\ e.out_[t].split = g}) = 1

\* C5: the grid has 3 x 2 = 6 combinations, the Cartesian product of its
\* value lists; with 4-fold inner and outer splits every inner search makes
\* 6 x 4 = 24 fits, each combination once on each inner fold, and the outer
\* loop returns exactly 4 nested scores.
C5_FitCounts ==
    NestedReturned =>
        LET cands == ParameterGrid(param_grid)
        IN  /\ Len(cands) = 6
            /\ {cands[c] : c \in DOMAIN cands}
                   = {[C |-> a, gamma |-> b] :
                          a \in {param_grid.C[k] : k \in DOMAIN param_grid.C},
                          b \in {param_grid.gamma[k] :
                                    k \in DOMAIN param_grid.gamma}}
            /\ Cardinality({cands[c] : c \in DOMAIN cands}) = 6
            /\ Len(test_score) = 4
            /\ \A f \in DOMAIN cv_log :
                   /\ Len(cv_log[f].estimator.out_) = 24
                   /\ Len(cv_log[f].estimator.splits_) = 4
                   /\ EachPairOnce(cv_log[f].estimator, 6, 4)

\* C5 witness: a trial's nested evaluation has returned its four scores.
C5_Witness ==
    /\ pc = "append_nested"
    /\ Len(cv_log) = 4
    /\ Len(cv_log[4].estimator.out_) = 24
    /\ cv_log[4].estimator.out_[24].cand = 6

\* the folds split the samples X into k pairwise disjoint, exhaustive,
\* non-empty held-out groups, each training subset being the complement
IsPartition(folds, X, k) ==
    /\ Len(folds) = k
    /\ UNION {folds[g].test : g \in DOMAIN folds} = X
    /\ \A g, h \in DOMAIN folds :
           g # h => folds[g].test \cap folds[h].test = {}
    /\ \A g \in DOMAIN folds :
           /\ folds[g].train = X \ folds[g].test
           /\ Cardinality(X) >= k => /\ folds[g].test # {}
                                     /\ folds[g].train # {}

\* C7: every fold partition used, inner or outer, splits the samples it is
\* given into k pairwise disjoint, collectively exhaustive held-out groups
\* with complementary training subsets; with at least k samples no group is
\* empty, also when the inner partition is applied to an outer training
\* subset.
C7_Partitions ==
    /\ pc = "append_not_nested"
         => IsPartition(model.splits_, data, inner_cv.n_splits)
    /\ NestedReturned
         => /\ IsPartition([f \in DOMAIN cv_log |->
                              [train |-> cv_log[f].train,
                               test |-> cv_log[f].test]],
                           data, outer_cv.n_splits)
            /\ \A f \in DOMAIN cv_log :
                   /\ Cardinality(cv_log[f].train) >= inner_cv.n_splits
                   /\ IsPartition(cv_log[f].estimator.splits_,
                                  cv_log[f].train, inner_cv.n_splits)

\* C7 witness: an inner partition applied to an outer training subset whose
\* size is not a multiple of k, so the held-out groups differ in size.
C7_Witness ==
    /\ pc = "append_nested"
    /\ \E f \in DOMAIN cv_log :
           LET sp == cv_log[f].estimator.splits_
           IN  /\ Len(sp) = n_splits
               /\ \E g, h \in DOMAIN sp :
                      Cardinality(sp[g].test) > Cardinality(sp[h].test)

\* C8 (state part): inside trial i both splitters carry the seed i and the
\* same fold count; the held-out folds of the non-nested search, fitted on
\* the full dataset, are the outer test folds of the trial.
C8_SameSeed ==
    /\ InTrial => /\ inner_cv.random_state = i
                  /\ outer_cv.random_state = i
                  /\ inner_cv.n_splits = outer_cv.n_splits
                  /\ inner_cv.shuffle = outer_cv.shuffle
    /\ pc = "append_nested"
         => /\ model.X_ = data
            /\ Len(model.splits_) = Len(cv_log)
            /\ \A f \in DOMAIN cv_log :
                   model.splits_[f].test = cv_log[f].test

\* C8: in every trial i the inner and the outer splitter are re-created with
\* the seed i and the same fold count; the seed changes from one trial to the
\* next (it only ever grows); the non-nested held-out folds coincide with the
\* outer test folds.
C8_TrialSeeds ==
    /\ []C8_SameSeed
    /\ [][pc = "trial_cv" =>
            /\ inner_cv'.random_state = i
            /\ outer_cv'.random_state = i
            /\ (inner_cv.n_splits > 0 /\ i > 0)
                   => inner_cv'.random_state > inner_cv.random_state]_vars

\* C8 witness: a later trial's nested evaluation has returned.
C8_Witness ==
    /\ pc = "append_nested"
    /\ i = 2
    /\ outer_cv.random_state = 2
    /\ model.cv.random_state = 2
    /\ Len(cv_log) = n_splits

IsPrefix(s, t) == Len(s) <= Len(t) /\ \A k \in DOMAIN s : s[k] = t[k]

InLoop == pc \in {"for", "trial_cv", "trial_model", "trial_fit",
                  "append_not_nested", "trial_nested", "append_nested"}

\* a step of the trial loop leaves the dataset, the labels, the grid and the
\* base classifier alone, and appends at most one element to each sequence
C10_Frame ==
    InLoop =>
        /\ data' = data
        /\ target' = target
        /\ param_grid' = param_grid
        /\ model_to_tune' = model_to_tune
        /\ IsPrefix(test_score_not_nested, test_score_not_nested')
        /\ IsPrefix(test_score_nested, test_score_nested')
        /\ Len(test_score_not_nested') =
               Len(test_score_not_nested)
                   + (IF pc = "append_not_nested" THEN 1 ELSE 0)
        /\ Len(test_score_nested') =
               Len(test_score_nested)
                   + (IF pc = "append_nested" THEN 1 ELSE 0)

\* the nested scores of trial i are those of a search that was never fitted
C10_Fresh ==
    pc = "append_nested" =>
        test_score =
            cross_val_score(
                cross_validate(
                    GridSearchCV(SVC, ParamGridLiteral,
                                 KFold(n_splits, TRUE, i)),
                    1..NSamples, KFold(n_splits, TRUE, i)))

\* C10: nothing but the two result sequences changes across trial
\* iterations: each iteration appends one element to the end of each and
\* leaves earlier elements, the dataset, the labels, the grid and the base
\* classifier unchanged; the nested scores of a trial do not depend on the
\* fitted state the non-nested fit, or an earlier trial, left on the search.
C10_TrialFrame == []C10_Fresh /\ [][C10_Frame]_vars

\* C10 witness: the second trial's nested evaluation has returned, the
\* search object fitted, the sequences holding the first trial's results.
C10_Witness ==
    /\ pc = "append_nested"
    /\ i = 1
    /\ model.fitted
    /\ Len(test_score_nested) = 1
    /\ Len(test_score_not_nested) = 2

====
